---- MODULE Spec2Model ----
(***************************************************************************)
(* ripcal: the address-range / subnet algebra of src/src/iprange.rs (the   *)
(* library module) and src/src/main.rs (the binary, which carries its own  *)
(* copies of the same functions plus merge_ranges and process_ranges).     *)
(*                                                                         *)
(* Addresses are Bits wide.  The source fixes the width at 32 (u32) and    *)
(* does its decomposition arithmetic in u64; the model keeps every         *)
(* expression of the source and scales the width, so that the whole        *)
(* address space can be enumerated: 32 becomes Bits, 0xffffffff becomes    *)
(* MaxAddr, and the u64 working values stay below 2^(Bits+2).              *)
(***************************************************************************)
EXTENDS Integers, Sequences, FiniteSets, TLC

\* Width of an address in bits (32 in the source).
Bits == 4

\* Longest vector merge_ranges is called with directly.
MaxRanges == 3

\* Those vectors use the addresses 0..MergeSpan, MaxAddr - 1 and MaxAddr.
MergeSpan == 2

\* Most range arguments in one run of the binary.
MaxArgs == 2

\* Largest value of a u8 (the type of a prefix length).
U8Max == 255

MaxAddr == 2^Bits - 1

Addr == 0..MaxAddr

(***************************************************************************)
(* Bit operations on unsigned values.                                      *)
(***************************************************************************)
\* x >> n
Shr(x, n) == x \div 2^n

\* x << n on a u32: the bits shifted out are dropped.
Shl(x, n) == (x * 2^n) % 2^Bits

RECURSIVE BitAnd(_, _, _)
\* a & b over the low n bits
BitAnd(a, b, n) ==
    IF n = 0 THEN 0
    ELSE 2 * BitAnd(a \div 2, b \div 2, n - 1)
         + (IF a % 2 = 1 /\ b % 2 = 1 THEN 1 ELSE 0)

RECURSIVE BitOr(_, _, _)
\* a | b over the low n bits
BitOr(a, b, n) ==
    IF n = 0 THEN 0
    ELSE 2 * BitOr(a \div 2, b \div 2, n - 1)
         + (IF a % 2 = 1 \/ b % 2 = 1 THEN 1 ELSE 0)

\* x << n on a u64 (twice the address width)
Shl64(x, n) == (x * 2^n) % 2^(2 * Bits)

\* !a on a u32
BitNot(a) == MaxAddr - a

(***************************************************************************)
(* iprange.rs: count_suffix_zero_bits, make_mask, mask_ipaddr              *)
(***************************************************************************)
RECURSIVE SuffixZeroLoop(_, _)
SuffixZeroLoop(i, ip) ==
    IF i <= Bits /\ BitAnd(ip, 1, 1) = 0
    THEN SuffixZeroLoop(i + 1, Shr(ip, 1))
    ELSE i

\* mutant: the loop body runs once before the first test (a do-while)
count_suffix_zero_bits_dowhile(ip) == SuffixZeroLoop(1, Shr(ip, 1))

count_suffix_zero_bits(ip) == SuffixZeroLoop(0, ip)

\* mutant: no case for prefix 0, where the shift by 32 leaves the mask whole
make_mask_no_zero_case(prefix) ==
    IF prefix < Bits /\ prefix > 0
    THEN LET n == Bits - prefix IN Shl(Shr(MaxAddr, n), n)
    ELSE MaxAddr

make_mask(prefix) ==
    IF prefix = 0 THEN 0
    ELSE IF prefix < Bits
         THEN LET n == Bits - prefix IN Shl(Shr(MaxAddr, n), n)
         ELSE MaxAddr

mask_ipaddr(ip, prefix) == BitAnd(ip, make_mask(prefix), Bits)

(***************************************************************************)
(* Ipv4Subnet {addr, prefix} and Ipv4Range {start, end}.  A Result is a    *)
(* record with ok, and the value in a one-element sequence when ok.        *)
(* Records list their fields in the order TLC normalises them to.          *)
(***************************************************************************)
Ipv4Subnet(addr, prefix) == [prefix |-> prefix, addr |-> addr]

Ipv4Range(start, end) == [start |-> start, end |-> end]

Ok(v) == [ok |-> TRUE, val |-> <<v>>, err |-> "none"]

Err(e) == [ok |-> FALSE, val |-> <<>>, err |-> e]

start_addr(subnet) == mask_ipaddr(subnet.addr, subnet.prefix)

end_addr(subnet) ==
    LET start == mask_ipaddr(subnet.addr, subnet.prefix)
    IN BitOr(start, BitNot(make_mask(subnet.prefix)), Bits)

\* TryFrom<(Ipv4Addr, u8)> for Ipv4Subnet
subnet_try_from(addr, prefix) ==
    IF prefix > Bits THEN Err("Invalid IP subnet prefix")
    ELSE Ok(Ipv4Subnet(addr, prefix))

\* mutant: the start is the subnet's stored address, not masked
range_from_subnet_unmasked(ipsubnet) ==
    Ipv4Range(ipsubnet.addr, end_addr(ipsubnet))

\* From<&Ipv4Subnet> for Ipv4Range
range_from_subnet(ipsubnet) ==
    Ipv4Range(start_addr(ipsubnet), end_addr(ipsubnet))

\* TryFrom<(Ipv4Addr, Ipv4Addr)> for Ipv4Range
range_try_from_bounds(t0, t1) ==
    IF t0 > t1 THEN Err("Invalid Range")
    ELSE Ok(Ipv4Range(t0, t1))

\* TryFrom<(Ipv4Addr, u8)> for Ipv4Range
range_try_from_subnet(addr, prefix) ==
    LET s == subnet_try_from(addr, prefix)
    IN IF s.ok THEN Ok(range_from_subnet(s.val[1])) ELSE Err(s.err)

\* mutant: the new end is stored without the comparison with start
update_end_unchecked(self, end) ==
    [range |-> [self EXCEPT !.end = end], ret |-> TRUE]

\* Ipv4Range::update_end: the range afterwards and the returned bool
update_end(self, end) ==
    IF end < self.start
    THEN [range |-> self, ret |-> FALSE]
    ELSE [range |-> [self EXCEPT !.end = end], ret |-> TRUE]

RECURSIVE PrefixLoop(_, _, _)
PrefixLoop(i, start, end) ==
    IF i >= Bits THEN 0
    ELSE IF Shr(start, i) = Shr(end, i) THEN Bits - i
         ELSE PrefixLoop(i + 1, start, end)

\* mutant: the loop runs over 1..32, so equal bounds are compared shifted
get_prefix_from_one(self) == PrefixLoop(1, self.start, self.end)

\* Ipv4Range::get_prefix
get_prefix(self) == PrefixLoop(0, self.start, self.end)

\* From<&Ipv4Range> for Ipv4Subnet
subnet_from_range(iprange) == Ipv4Subnet(iprange.start, get_prefix(iprange))

(***************************************************************************)
(* Ipv4Range::to_subnets.  s is a u8 and the prefix is computed as         *)
(* 32u8 - s: a decrement below 0, a prefix below 0 and a failed try_from   *)
(* all end in a panic, recorded in the result.                             *)
(***************************************************************************)
RECURSIVE HalveLoopEager(_, _, _, _)
\* mutant: the loop also halves a block that ends exactly at end (>= for >)
HalveLoopEager(start, end, s, diff) ==
    IF start + diff >= end /\ s > 0
    THEN HalveLoopEager(start, end, s - 1, Shr(diff, 1))
    ELSE [s |-> s, diff |-> diff, panic |-> FALSE]

RECURSIVE HalveLoop(_, _, _, _)
\* while (start + diff) > end { diff >>= 1; s -= 1; }
HalveLoop(start, end, s, diff) ==
    IF start + diff > end
    THEN IF s = 0
         THEN [s |-> s, diff |-> diff, panic |-> TRUE]
         ELSE HalveLoop(start, end, s - 1, Shr(diff, 1))
    ELSE [s |-> s, diff |-> diff, panic |-> FALSE]

RECURSIVE SubnetsLoop(_, _, _)
\* while start <= end { ... }: vec is the vector built so far
SubnetsLoop(start, end, vec) ==
    IF start <= end
    THEN LET s0 == count_suffix_zero_bits(start)
             h == HalveLoop(start, end, s0, Shl64(1, s0) - 1)
             sub == IF h.s > Bits THEN Err("Invalid IP subnet prefix")
                    ELSE subnet_try_from(start % 2^Bits, Bits - h.s)
         IN IF h.panic \/ ~sub.ok
            THEN [panic |-> TRUE, vec |-> vec]
            ELSE SubnetsLoop(start + h.diff + 1, end, Append(vec, sub.val[1]))
    ELSE [panic |-> FALSE, vec |-> vec]

RECURSIVE SubnetsOneByOne(_, _, _)
\* mutant: every address is emitted as a block of its own
SubnetsOneByOne(start, end, vec) ==
    IF start <= end
    THEN SubnetsOneByOne(start + 1, end, Append(vec, Ipv4Subnet(start, Bits)))
    ELSE [panic |-> FALSE, vec |-> vec]

to_subnets_one_by_one(self) == SubnetsOneByOne(self.start, self.end, <<>>)

to_subnets(self) == SubnetsLoop(self.start, self.end, <<>>)

(***************************************************************************)
(* main.rs: ip_range_to_subnets, the binary's copy.  It builds the subnet  *)
(* as a struct literal with prefix 32 - s on u8: with overflow checks a    *)
(* negative difference panics, without them it wraps modulo 256.           *)
(***************************************************************************)
RECURSIVE MainSubnetsLoop(_, _, _, _)
MainSubnetsLoop(start, end, vec, checks) ==
    IF start <= end
    THEN LET s0 == count_suffix_zero_bits(start)
             h == HalveLoop(start, end, s0, Shl64(1, s0) - 1)
             prefix == (Bits - h.s) % (U8Max + 1)
         IN IF h.panic \/ (h.s > Bits /\ checks)
            THEN [panic |-> TRUE, vec |-> vec]
            ELSE MainSubnetsLoop(start + h.diff + 1, end,
                     Append(vec, Ipv4Subnet(start % 2^Bits, prefix)), checks)
    ELSE [panic |-> FALSE, vec |-> vec]

ip_range_to_subnets(range, checks) ==
    MainSubnetsLoop(range.start, range.end, <<>>, checks)

(***************************************************************************)
(* main.rs: Vec::sort with the derived Ord of Ipv4Range (start, then end), *)
(* and merge_ranges.  end + 1 is a u32 addition: when end is 0xffffffff it *)
(* panics in a build with overflow checks and wraps to 0 in one without.   *)
(***************************************************************************)
RangeLe(a, b) == a.start < b.start \/ (a.start = b.start /\ a.end <= b.end)

RECURSIVE Insert(_, _)
Insert(r, sorted) ==
    IF sorted = <<>> THEN <<r>>
    ELSE IF RangeLe(r, Head(sorted)) THEN <<r>> \o sorted
         ELSE <<Head(sorted)>> \o Insert(r, Tail(sorted))

RECURSIVE sort(_)
sort(vec) == IF vec = <<>> THEN <<>> ELSE Insert(Head(vec), sort(Tail(vec)))

Max(a, b) == IF a >= b THEN a ELSE b

RECURSIVE MergeLoop(_, _, _, _)
\* for i in 1..n: i and n count from 0 as in the source, ranges from 1
MergeLoop(ranges, j, i, checks) ==
    IF i >= Len(ranges)
    THEN [panic |-> FALSE, ranges |-> ranges, j |-> j]
    ELSE LET start == ranges[i + 1].start
             end == ranges[j + 1].end
         IN IF end + 1 > MaxAddr /\ checks
            THEN [panic |-> TRUE, ranges |-> ranges, j |-> j]
            ELSE IF start > (end + 1) % 2^Bits
                 THEN MergeLoop([ranges EXCEPT ![j + 2] = ranges[i + 1]],
                                j + 1, i + 1, checks)
                 ELSE MergeLoop(
                          [ranges EXCEPT ![j + 1].end =
                               Max(ranges[j + 1].end, ranges[i + 1].end)],
                          j, i + 1, checks)

\* mutant: the vector is truncated at j without the final j += 1
merge_ranges_short(ranges, checks) ==
    IF Len(ranges) < 2 THEN [panic |-> FALSE, ranges |-> ranges]
    ELSE LET l == MergeLoop(ranges, 0, 1, checks)
         IN IF l.panic THEN [panic |-> TRUE, ranges |-> l.ranges]
            ELSE [panic |-> FALSE, ranges |-> SubSeq(l.ranges, 1, l.j)]

\* j += 1; ranges.drain(j..)
merge_ranges(ranges, checks) ==
    IF Len(ranges) < 2 THEN [panic |-> FALSE, ranges |-> ranges]
    ELSE LET l == MergeLoop(ranges, 0, 1, checks)
         IN IF l.panic THEN [panic |-> TRUE, ranges |-> l.ranges]
            ELSE [panic |-> FALSE, ranges |-> SubSeq(l.ranges, 1, l.j + 1)]

(***************************************************************************)
(* Argument strings.  Ipv4Addr::from_str and u8::from_str are the standard *)
(* library's; a string is modelled as a sequence of tokens so that they,   *)
(* find, slicing and trim act on it as on text:                            *)
(*   addr(n)  the dotted-quad text of address n                            *)
(*   num(n)   the decimal text of the number n                             *)
(*   "/", "-", " " and junk (any other text).                              *)
(***************************************************************************)
TAddr(n) == [v |-> n, k |-> "addr"]

TNum(n) == [v |-> n, k |-> "num"]

TSlash == [v |-> 0, k |-> "/"]

TDash == [v |-> 0, k |-> "-"]

TSpace == [v |-> 0, k |-> " "]

TJunk == [v |-> 0, k |-> "junk"]

\* str::find(c): the 1-based index of the first token of kind c, 0 for None
RECURSIVE FindFrom(_, _, _)
FindFrom(a, c, i) ==
    IF i > Len(a) THEN 0
    ELSE IF a[i].k = c THEN i ELSE FindFrom(a, c, i + 1)

find(a, c) == FindFrom(a, c, 1)

RECURSIVE TrimStart(_)
TrimStart(a) ==
    IF a # <<>> /\ Head(a).k = " " THEN TrimStart(Tail(a)) ELSE a

RECURSIVE TrimEnd(_)
TrimEnd(a) ==
    IF a # <<>> /\ a[Len(a)].k = " "
    THEN TrimEnd(SubSeq(a, 1, Len(a) - 1)) ELSE a

\* str::trim
trim(a) == TrimEnd(TrimStart(a))

\* Ipv4Addr::from_str: exactly one dotted quad, no surrounding blanks
ipv4addr_from_str(a) ==
    IF Len(a) = 1 /\ a[1].k = "addr" THEN Ok(a[1].v)
    ELSE Err("AddrParseError")

\* u8::from_str: exactly one decimal number that fits a u8
u8_from_str(a) ==
    IF Len(a) = 1 /\ a[1].k = "num" /\ a[1].v <= U8Max THEN Ok(a[1].v)
    ELSE Err("ParseIntError")

(***************************************************************************)
(* iprange.rs: Ipv4Range::parse_range (main.rs holds a copy that differs   *)
(* in the error texts only).                                               *)
(***************************************************************************)
\* mutant: the two sides of the '-' are parsed without trim
parse_range_untrimmed(a) ==
    LET n == find(a, "/")
        m == find(a, "-")
    IN IF n # 0
       THEN LET prefix == u8_from_str(SubSeq(a, n + 1, Len(a)))
                addr == ipv4addr_from_str(SubSeq(a, 1, n - 1))
            IN IF ~prefix.ok THEN Err("Invalid IP subnet prefix")
               ELSE IF ~addr.ok THEN Err("Invalid IP address")
               ELSE range_try_from_subnet(addr.val[1], prefix.val[1])
       ELSE IF m # 0
       THEN LET iprange_start == ipv4addr_from_str(SubSeq(a, 1, m - 1))
                iprange_end == ipv4addr_from_str(SubSeq(a, m + 1, Len(a)))
            IN IF ~iprange_start.ok THEN Err("Invalid IP address")
               ELSE IF ~iprange_end.ok THEN Err("Invalid IP address")
               ELSE range_try_from_bounds(iprange_start.val[1],
                                          iprange_end.val[1])
       ELSE Err("Invalid IP range/subnet")

parse_range(a) ==
    LET n == find(a, "/")
        m == find(a, "-")
    IN IF n # 0
       THEN LET prefix == u8_from_str(SubSeq(a, n + 1, Len(a)))
                addr == ipv4addr_from_str(SubSeq(a, 1, n - 1))
            IN IF ~prefix.ok THEN Err("Invalid IP subnet prefix")
               ELSE IF ~addr.ok THEN Err("Invalid IP address")
               ELSE range_try_from_subnet(addr.val[1], prefix.val[1])
       ELSE IF m # 0
       THEN LET iprange_start == ipv4addr_from_str(trim(SubSeq(a, 1, m - 1)))
                iprange_end == ipv4addr_from_str(trim(SubSeq(a, m + 1, Len(a))))
            IN IF ~iprange_start.ok THEN Err("Invalid IP address")
               ELSE IF ~iprange_end.ok THEN Err("Invalid IP address")
               ELSE range_try_from_bounds(iprange_start.val[1],
                                          iprange_end.val[1])
       ELSE Err("Invalid IP range/subnet")

(***************************************************************************)
(* main.rs: process_ipaddress for the subnet and range forms (the single   *)
(* address converters are outside the algebra and print "address"), and    *)
(* process_ranges.  Both print; the record holds what is printed.          *)
(***************************************************************************)
Printed(kind, subnet, range) == [subnet |-> subnet, range |-> range, kind |-> kind]

process_ipaddress(a) ==
    LET n == find(a, "/")
        m == find(a, "-")
    IN IF n # 0
       THEN LET prefix == u8_from_str(SubSeq(a, n + 1, Len(a)))
                addr == ipv4addr_from_str(SubSeq(a, 1, n - 1))
                subnet == IF prefix.ok /\ addr.ok
                          THEN subnet_try_from(addr.val[1], prefix.val[1])
                          ELSE Err("Invalid IP subnet")
            IN IF subnet.ok
               THEN Printed("subnet", subnet.val,
                            <<range_from_subnet(subnet.val[1])>>)
               ELSE Printed("Invalid IP subnet", <<>>, <<>>)
       ELSE IF m # 0
       THEN LET iprange_start == ipv4addr_from_str(trim(SubSeq(a, 1, m - 1)))
                iprange_end == ipv4addr_from_str(trim(SubSeq(a, m + 1, Len(a))))
                iprange == IF iprange_start.ok /\ iprange_end.ok
                           THEN range_try_from_bounds(iprange_start.val[1],
                                                      iprange_end.val[1])
                           ELSE Err("Invalid IP range")
            IN IF iprange.ok
               THEN LET subnet == subnet_from_range(iprange.val[1])
                    IN Printed("range", <<subnet>>, <<range_from_subnet(subnet)>>)
               ELSE Printed("Invalid IP range", <<>>, <<>>)
       ELSE IF ipv4addr_from_str(a).ok THEN Printed("address", <<>>, <<>>)
       ELSE Printed("other", <<>>, <<>>)

RECURSIVE DecomposeAll(_, _, _, _)
\* for i in 0..vec.len() { tmp = ip_range_to_subnets(vec[i]); vec2.extend(tmp) }
\* parts keeps each tmp, vec2 is their concatenation
DecomposeAll(vec, i, acc, checks) ==
    IF i > Len(vec) THEN acc
    ELSE LET tmp == ip_range_to_subnets(vec[i], checks)
         IN IF tmp.panic THEN [acc EXCEPT !.panic = TRUE]
            ELSE DecomposeAll(vec, i + 1,
                     [panic |-> FALSE,
                      parts |-> Append(acc.parts, tmp.vec),
                      vec2 |-> acc.vec2 \o tmp.vec], checks)

\* process_ranges: sorted is the vector handed to merge_ranges
process_ranges(vec, checks) ==
    IF vec = <<>>
    THEN [panic |-> FALSE, sorted |-> <<>>, ranges |-> <<>>,
          parts |-> <<>>, vec2 |-> <<>>]
    ELSE LET sorted == sort(vec)
             merged == merge_ranges(sorted, checks)
             d == DecomposeAll(merged.ranges, 1,
                      [panic |-> FALSE, parts |-> <<>>, vec2 |-> <<>>], checks)
         IN IF merged.panic
            THEN [panic |-> TRUE, sorted |-> sorted, ranges |-> <<>>,
                  parts |-> <<>>, vec2 |-> <<>>]
            ELSE [panic |-> d.panic, sorted |-> sorted,
                  ranges |-> merged.ranges, parts |-> d.parts, vec2 |-> d.vec2]

(***************************************************************************)
(* The inputs the model draws.                                             *)
(***************************************************************************)
\* prefix lengths offered: every valid one, the first invalid one, and the
\* largest u8
Prefixes == (0..(Bits + 1)) \cup {U8Max}

\* numbers offered as text: the prefixes and the first that fits no u8
Numbers == Prefixes \cup {U8Max + 1}

\* the argument strings handed to parse_range, over the addresses A
ArgStrings(A) ==
    {<<>>, <<TJunk>>, <<TSlash>>, <<TDash>>}
    \cup {<<TAddr(a)>> : a \in A}
    \cup {<<TAddr(a), TSlash, TNum(n)>> : a \in A, n \in Numbers}
    \cup {<<TAddr(a), TDash, TAddr(b)>> : a \in A, b \in A}
    \cup {<<TAddr(a), TSpace, TDash, TSpace, TAddr(b)>> : a \in A, b \in A}
    \cup {<<TSpace, TAddr(a), TDash, TAddr(a), TSpace>> : a \in A}
    \cup {<<TAddr(a), TSlash, TJunk>> : a \in A}
    \cup {<<TAddr(a), TSlash>> : a \in A}
    \cup {<<TAddr(a), TSlash, TAddr(a)>> : a \in A}
    \cup {<<TAddr(a), TSpace, TSlash, TNum(n)>> : a \in A, n \in {0, Bits}}
    \cup {<<TAddr(a), TSlash, TSpace, TNum(n)>> : a \in A, n \in {0, Bits}}
    \cup {<<TAddr(a), TSlash, TNum(n), TDash, TAddr(a)>> : a \in A, n \in {0, Bits}}
    \cup {<<TAddr(a), TDash, TAddr(a), TSlash, TNum(n)>> : a \in A, n \in {0, Bits}}
    \cup {<<TAddr(a), TSlash, TNum(n), TSlash, TNum(n)>> : a \in A, n \in {0, Bits}}
    \cup {<<TAddr(a), TDash, TAddr(a), TDash, TAddr(a)>> : a \in A}
    \cup {<<TAddr(a), TDash, TJunk>> : a \in A}
    \cup {<<TJunk, TDash, TAddr(a)>> : a \in A}
    \cup {<<TAddr(a), TDash>> : a \in A}
    \cup {<<TDash, TAddr(a)>> : a \in A}
    \cup {<<TJunk, TSlash, TNum(n)>> : n \in Numbers}
    \cup {<<TSlash, TNum(n)>> : n \in Numbers}
    \cup {<<TNum(n), TSlash, TNum(n)>> : n \in Numbers}
    \cup {<<TNum(n), TDash, TNum(n)>> : n \in Numbers}
    \cup {<<TNum(n)>> : n \in Numbers}

\* the addresses of the vectors merge_ranges is called with directly
MergeAddrs == (0..MergeSpan) \cup {MaxAddr - 1, MaxAddr}

\* the addresses of the binary's arguments
ArgAddrs == {0, 1, MaxAddr}

ValidRanges(A) ==
    {r \in {Ipv4Range(a, b) : a \in A, b \in A} : r.start <= r.end}

IsSorted(l) == \A i \in 1..(Len(l) - 1) : RangeLe(l[i], l[i + 1])

\* the sorted vectors merge_ranges is called with directly
SortedLists ==
    {l \in UNION {[1..n -> ValidRanges(MergeAddrs)] : n \in 0..MaxRanges} :
        IsSorted(l)}

\* arguments of the binary that are no range: a bare address, other text
OtherArgs == {<<TAddr(0)>>, <<TJunk>>}

(***************************************************************************)
(* State.                                                                  *)
(*   entry      what is being run: "iprange" (calls of the library API of  *)
(*              iprange.rs on one Ipv4Range value), "main" (a run of the   *)
(*              binary over its arguments) or "merge_ranges" (calls of     *)
(*              main.rs's merge_ranges on a sorted vector)                 *)
(*   checks     whether the build has integer overflow checks (Rust's      *)
(*              debug profile has, its release profile has not)            *)
(*   cur        the library's Ipv4Range value, <<>> when there is none:    *)
(*              made once by a constructor, then used and updated          *)
(*   origin     how cur was made: the constructor and its arguments        *)
(*   range_merge, vec   process_args's locals                              *)
(*   call, ret  the last operation, its inputs, and what it returned or    *)
(*              printed                                                    *)
(*   panicked   the run has ended in a panic                               *)
(*   done       the argument list is exhausted                             *)
(***************************************************************************)
VARIABLES entry, checks, cur, origin, range_merge, vec, call, ret, panicked, done

vars == <<entry, checks, cur, origin, range_merge, vec, call, ret, panicked, done>>

NoCall == [a |-> 0, b |-> 0, op |-> "none", str |-> <<>>, rng |-> <<>>,
           list |-> <<>>, again |-> FALSE]

NoRet == [ok |-> TRUE, parts |-> <<>>, rng |-> <<>>, list |-> <<>>,
          subnets |-> <<>>, printed |-> Printed("none", <<>>, <<>>)]

Origin(kind, a, b) == [a |-> a, b |-> b, kind |-> kind]

Init ==
    /\ entry \in {"iprange", "main", "merge_ranges"}
    /\ checks \in BOOLEAN
    /\ cur = <<>>
    /\ origin = Origin("none", 0, 0)
    /\ range_merge = FALSE
    /\ vec \in (IF entry = "merge_ranges" THEN SortedLists ELSE {<<>>})
    /\ call = NoCall
    /\ ret = NoRet
    /\ panicked = FALSE
    /\ done = FALSE

Running(e) == entry = e /\ ~panicked /\ ~done

(***************************************************************************)
(* entry = "iprange": the library API                                      *)
(***************************************************************************)
\* Ipv4Range::try_from((start, end))
TryFromBounds(s, e) ==
    /\ Running("iprange")
    /\ origin.kind = "none"
    /\ LET r == range_try_from_bounds(s, e)
       IN /\ cur' = r.val
          /\ origin' = Origin("bounds", s, e)
          /\ call' = [NoCall EXCEPT !.op = "try_from_bounds", !.a = s, !.b = e]
          /\ ret' = [NoRet EXCEPT !.ok = r.ok, !.rng = r.val]
    /\ UNCHANGED <<entry, checks, range_merge, vec, panicked, done>>

\* Ipv4Range::try_from((addr, prefix))
TryFromSubnet(a, p) ==
    /\ Running("iprange")
    /\ origin.kind = "none"
    /\ LET r == range_try_from_subnet(a, p)
           s == subnet_try_from(a, p)
       IN /\ cur' = r.val
          /\ origin' = Origin("subnet", a, p)
          /\ call' = [NoCall EXCEPT !.op = "try_from_subnet", !.a = a, !.b = p]
          /\ ret' = [NoRet EXCEPT !.ok = r.ok, !.rng = r.val, !.subnets = s.val]
    /\ UNCHANGED <<entry, checks, range_merge, vec, panicked, done>>

\* Ipv4Range::parse_range(a), Ipv4Range::from_str(a)
ParseRange(a) ==
    /\ Running("iprange")
    /\ origin.kind = "none"
    /\ LET r == parse_range(a)
       IN /\ cur' = r.val
          /\ origin' = Origin("parse", 0, 0)
          /\ call' = [NoCall EXCEPT !.op = "parse_range", !.str = a]
          /\ ret' = [NoRet EXCEPT !.ok = r.ok, !.rng = r.val]
    /\ UNCHANGED <<entry, checks, range_merge, vec, panicked, done>>

\* cur.update_end(e)
UpdateEnd(e) ==
    /\ Running("iprange")
    /\ cur # <<>>
    /\ LET u == update_end(cur[1], e)
       IN /\ cur' = <<u.range>>
          /\ origin' = Origin("update_end", 0, 0)
          /\ call' = [NoCall EXCEPT !.op = "update_end", !.a = e, !.rng = cur]
          /\ ret' = [NoRet EXCEPT !.ok = u.ret, !.rng = <<u.range>>]
    /\ UNCHANGED <<entry, checks, range_merge, vec, panicked, done>>

\* cur.to_subnets()
ToSubnets ==
    /\ Running("iprange")
    /\ cur # <<>>
    /\ LET t == to_subnets(cur[1])
       IN /\ panicked' = t.panic
          /\ call' = [NoCall EXCEPT !.op = "to_subnets", !.rng = cur]
          /\ ret' = [NoRet EXCEPT !.ok = ~t.panic, !.subnets = t.vec]
    /\ UNCHANGED <<entry, checks, cur, origin, range_merge, vec, done>>

\* Ipv4Subnet::from(&cur), and that subnet's range
SubnetFrom ==
    /\ Running("iprange")
    /\ cur # <<>>
    /\ LET s == subnet_from_range(cur[1])
       IN /\ call' = [NoCall EXCEPT !.op = "subnet_from", !.rng = cur]
          /\ ret' = [NoRet EXCEPT !.subnets = <<s>>,
                                  !.rng = <<range_from_subnet(s)>>]
    /\ UNCHANGED <<entry, checks, cur, origin, range_merge, vec, panicked, done>>

(***************************************************************************)
(* entry = "main": process_args, one action per argument                   *)
(***************************************************************************)
\* what a call of process_ranges leaves behind
AfterProcessRanges(p, printed) ==
    /\ panicked' = p.panic
    /\ vec' = <<>>
    /\ ret' = [NoRet EXCEPT !.ok = ~p.panic, !.list = p.ranges,
                            !.subnets = p.vec2, !.parts = p.parts,
                            !.printed = printed]

\* the argument is --merge-ranges or -m
ArgMergeFlag ==
    /\ Running("main")
    /\ range_merge' = TRUE
    /\ call' = [NoCall EXCEPT !.op = "flag"]
    /\ ret' = NoRet
    /\ UNCHANGED <<entry, checks, cur, origin, vec, panicked, done>>

\* an argument after -m that parses as a range: vec.push(range)
ArgRange(a) ==
    /\ Running("main")
    /\ range_merge
    /\ Len(vec) < MaxArgs
    /\ LET r == parse_range(a)
       IN /\ r.ok
          /\ vec' = Append(vec, r.val[1])
    /\ call' = [NoCall EXCEPT !.op = "push"]
    /\ ret' = NoRet
    /\ UNCHANGED <<entry, checks, cur, origin, range_merge, panicked, done>>

\* an argument after -m that is no range: process_ranges(vec), vec.clear(),
\* process_ipaddress(a)
ArgOtherMerging(a) ==
    /\ Running("main")
    /\ range_merge
    /\ ~parse_range(a).ok
    /\ LET p == process_ranges(vec, checks)
       IN /\ call' = [NoCall EXCEPT !.op = "process_ranges", !.str = a,
                                    !.list = p.sorted]
          /\ AfterProcessRanges(p, IF p.panic THEN NoRet.printed
                                   ELSE process_ipaddress(a))
    /\ UNCHANGED <<entry, checks, cur, origin, range_merge, done>>

\* an argument before any -m: process_ipaddress(a)
ArgAddress(a) ==
    /\ Running("main")
    /\ ~range_merge
    /\ call' = [NoCall EXCEPT !.op = "process_ipaddress", !.str = a]
    /\ ret' = [NoRet EXCEPT !.printed = process_ipaddress(a)]
    /\ UNCHANGED <<entry, checks, cur, origin, range_merge, vec, panicked, done>>

\* the arguments are exhausted: if range_merge { process_ranges(vec) }
EndOfArgs ==
    /\ Running("main")
    /\ done' = TRUE
    /\ IF range_merge
       THEN LET p == process_ranges(vec, checks)
            IN /\ call' = [NoCall EXCEPT !.op = "process_ranges",
                                         !.list = p.sorted]
               /\ AfterProcessRanges(p, NoRet.printed)
       ELSE /\ call' = [NoCall EXCEPT !.op = "end"]
            /\ ret' = NoRet
            /\ UNCHANGED <<vec, panicked>>
    /\ UNCHANGED <<entry, checks, cur, origin, range_merge>>

(***************************************************************************)
(* entry = "merge_ranges": merge_ranges(&mut vec) on a sorted vector       *)
(***************************************************************************)
CallMergeRanges ==
    /\ Running("merge_ranges")
    /\ LET m == merge_ranges(vec, checks)
       IN /\ panicked' = m.panic
          /\ vec' = m.ranges
          /\ call' = [NoCall EXCEPT !.op = "merge_ranges", !.list = vec,
                                    !.again = (call.op = "merge_ranges")]
          /\ ret' = [NoRet EXCEPT !.ok = ~m.panic, !.list = m.ranges]
    /\ UNCHANGED <<entry, checks, cur, origin, range_merge, done>>

Next ==
    \/ \E s \in Addr, e \in Addr : TryFromBounds(s, e)
    \/ \E a \in Addr, p \in Prefixes : TryFromSubnet(a, p)
    \/ \E a \in ArgStrings(Addr) : ParseRange(a)
    \/ \E e \in Addr : UpdateEnd(e)
    \/ ToSubnets
    \/ SubnetFrom
    \/ ArgMergeFlag
    \/ \E a \in ArgStrings(ArgAddrs) : ArgRange(a)
    \/ \E a \in OtherArgs : ArgOtherMerging(a)
    \/ \E a \in ArgStrings(ArgAddrs) : ArgAddress(a)
    \/ EndOfArgs
    \/ CallMergeRanges

Spec == Init /\ [][Next]_vars

(***************************************************************************)
(* The properties.  The block of a subnet is stated by arithmetic, apart   *)
(* from the masks of the code: the 2^(Bits - prefix) addresses from the    *)
(* base rounded down to a multiple of that size.                           *)
(***************************************************************************)
BlockSize(prefix) == 2^(Bits - prefix)

BlockStart(subnet) == subnet.addr - (subnet.addr % BlockSize(subnet.prefix))

BlockEnd(subnet) == BlockStart(subnet) + BlockSize(subnet.prefix) - 1

ValidSubnet(subnet) == subnet.addr \in Addr /\ subnet.prefix \in 0..Bits

\* the addresses a list of subnets covers
SubnetsCover(subs) ==
    UNION {BlockStart(subs[i])..BlockEnd(subs[i]) : i \in 1..Len(subs)}

\* subs, in order, exactly partition [r.start, r.end]
Partitions(subs, r) ==
    /\ Len(subs) >= 1
    /\ \A i \in 1..Len(subs) : ValidSubnet(subs[i])
    /\ BlockStart(subs[1]) = r.start
    /\ \A i \in 1..(Len(subs) - 1) :
           BlockStart(subs[i + 1]) = BlockEnd(subs[i]) + 1
    /\ BlockEnd(subs[Len(subs)]) = r.end
    /\ SubnetsCover(subs) = r.start..r.end

\* the last operation was to_subnets on the library's range
DidToSubnets == call.op = "to_subnets"

\* the last operation was process_ranges and it printed its lists
DidProcessRanges == call.op = "process_ranges" /\ ret.ok /\ ret.list # <<>>

\* C1: Decomposition exactness.  The subnets to_subnets returns for a valid
\* range r, in order, exactly partition [r.start, r.end]: the first starts
\* at r.start, each next one starts one past the end of the one before, and
\* the last ends at r.end.  The same holds of every vector
\* ip_range_to_subnets returns inside process_ranges.
C1_DecompositionExact ==
    /\ DidToSubnets => ret.ok /\ Partitions(ret.subnets, call.rng[1])
    /\ DidProcessRanges =>
           /\ Len(ret.parts) = Len(ret.list)
           /\ \A i \in 1..Len(ret.list) : Partitions(ret.parts[i], ret.list[i])

\* C1 witness: a range that ends at the last address and needs several
\* subnets has been decomposed.
C1_Witness ==
    /\ DidToSubnets
    /\ call.rng[1].end = MaxAddr
    /\ call.rng[1].start > 0
    /\ Len(ret.subnets) >= 3

\* the addresses a list of ranges covers
RangesCover(l) == UNION {l[i].start..l[i].end : i \in 1..Len(l)}

\* how many ranges of l hold address x
CoverCount(l, x) ==
    Cardinality({i \in 1..Len(l) : l[i].start <= x /\ x <= l[i].end})

\* no two consecutive ranges of l overlap or touch
Separated(l) == \A i \in 1..(Len(l) - 1) : l[i + 1].start > l[i].end + 1

\* merge_ranges has returned: called directly, or inside process_ranges
DidMerge ==
    /\ call.op \in {"merge_ranges", "process_ranges"}
    /\ ret.ok

\* C2: Merge correctness.  For every sorted list of valid ranges, lists
\* with a range ending at the last address included, merge_ranges returns
\* ranges with the same union as its input, every covered address in
\* exactly one of them, and consecutive ones a, b with b.start > a.end + 1.
\* The code falls short of it where end + 1 overflows: stated here of the
\* calls that return, it fails in a build without overflow checks.
C2_MergeCorrect ==
    DidMerge =>
        /\ RangesCover(ret.list) = RangesCover(call.list)
        /\ \A x \in RangesCover(call.list) : CoverCount(ret.list, x) = 1
        /\ Separated(ret.list)

\* C5: Merge idempotence.  merge_ranges returns a sorted list that is
\* already pairwise disjoint and non-adjacent unchanged, an empty or
\* one-element list too, and applied to its own output it changes nothing.
C5_MergeIdempotent ==
    call.op = "merge_ranges" =>
        /\ Separated(call.list) => ret.ok /\ ret.list = call.list
        /\ Len(call.list) < 2 => ret.ok /\ ret.list = call.list
        /\ call.again => ret.ok /\ ret.list = call.list

\* C5 witness: merge_ranges has been applied a second time, to its own
\* output of two separated ranges, and has returned it unchanged.
C5_Witness ==
    /\ call.op = "merge_ranges"
    /\ call.again
    /\ Len(call.list) = 2
    /\ ret.list = call.list
    /\ Separated(call.list)

\* the longest prefix under which lo and hi fall in one block
CommonPrefix(lo, hi) ==
    CHOOSE p \in 0..Bits :
        /\ lo \div BlockSize(p) = hi \div BlockSize(p)
        /\ \A q \in (p + 1)..Bits : lo \div BlockSize(q) # hi \div BlockSize(q)

\* to_subnets has run on a range made from the subnet (origin.a, origin.b)
DidRoundTrip == DidToSubnets /\ origin.kind = "subnet"

\* C3: Subnet round-trip.  For every address a and prefix p in 0..Bits,
\* the range of Subnet(a, p), decomposed by to_subnets, covers exactly the
\* subnet's block, and when p is the longest common prefix of the range's
\* bounds the result is the single subnet (a masked to p, p).
C3_SubnetRoundTrip ==
    DidRoundTrip =>
        LET s == Ipv4Subnet(origin.a, origin.b)
            r == call.rng[1]
        IN /\ ret.ok
           /\ SubnetsCover(ret.subnets) = BlockStart(s)..BlockEnd(s)
           /\ CommonPrefix(r.start, r.end) = origin.b =>
                  ret.subnets = <<Ipv4Subnet(BlockStart(s), origin.b)>>

\* C3 witness: a subnet with an unaligned base and a prefix strictly
\* between 0 and Bits went through the round trip and came back as one
\* subnet with the masked base.
C3_Witness ==
    /\ DidRoundTrip
    /\ origin.b \in 1..(Bits - 1)
    /\ origin.a % BlockSize(origin.b) # 0
    /\ CommonPrefix(call.rng[1].start, call.rng[1].end) = origin.b
    /\ Len(ret.subnets) = 1
    /\ ret.subnets[1].addr # origin.a

\* consecutive subnets a and b have the same prefix length p and the base
\* of a is aligned to prefix p - 1: one block of double the size replaces them
Mergeable(a, b) ==
    /\ a.prefix = b.prefix
    /\ a.prefix >= 1
    /\ BlockStart(a) % BlockSize(a.prefix - 1) = 0

\* sub is the largest aligned power-of-two block that starts at its base and
\* does not run past end
LargestBlock(sub, end) ==
    /\ sub.addr % BlockSize(sub.prefix) = 0
    /\ sub.addr + BlockSize(sub.prefix) - 1 <= end
    /\ \A q \in 0..(sub.prefix - 1) :
           ~(sub.addr % BlockSize(q) = 0 /\ sub.addr + BlockSize(q) - 1 <= end)

\* C4: Decomposition minimality.  In the list to_subnets returns no two
\* consecutive subnets are the two halves of an aligned block of double the
\* size, and each emitted block is the largest aligned power-of-two block
\* that starts at its address and does not run past the range end.
C4_DecompositionMinimal ==
    DidToSubnets =>
        /\ \A i \in 1..(Len(ret.subnets) - 1) :
               ~Mergeable(ret.subnets[i], ret.subnets[i + 1])
        /\ \A i \in 1..Len(ret.subnets) :
               LargestBlock(ret.subnets[i], call.rng[1].end)

\* C4 witness: a decomposition with two consecutive subnets of the same
\* prefix length, which are not mergeable because the first is not aligned
\* to the double size.
C4_Witness ==
    /\ DidToSubnets
    /\ \E i \in 1..(Len(ret.subnets) - 1) :
           /\ ret.subnets[i].prefix = ret.subnets[i + 1].prefix
           /\ ret.subnets[i].prefix < Bits

\* C10, as claimed: to_subnets returns after at most Bits (32) iterations of
\* its outer loop, one per emitted subnet.
C10_AtMostBitsSubnets == DidToSubnets => ret.ok /\ Len(ret.subnets) <= Bits

\* C10, amended: to_subnets returns after at most 2 * (Bits - 1) iterations
\* of its outer loop (62 for 32-bit addresses).
C10_BoundedDecomposition ==
    DidToSubnets => ret.ok /\ Len(ret.subnets) <= 2 * (Bits - 1)

\* C10 witness: a decomposition that reaches the amended bound.
C10_Witness == DidToSubnets /\ Len(ret.subnets) = 2 * (Bits - 1)

ValidRange(r) == r.start \in Addr /\ r.end \in Addr /\ r.start <= r.end

\* every Ipv4Range value the state holds
RangesHeld ==
    {cur[i] : i \in 1..Len(cur)} \cup {ret.rng[i] : i \in 1..Len(ret.rng)}
    \cup {vec[i] : i \in 1..Len(vec)} \cup {ret.list[i] : i \in 1..Len(ret.list)}
    \cup {ret.printed.range[i] : i \in 1..Len(ret.printed.range)}

\* C6: Range invariant.  Every Ipv4Range obtained by constructing from
\* bounds, from a subnet, by parse_range, by update_end (accepted or not)
\* and by merge_ranges on sorted input has start <= end; the construction
\* from bounds fails exactly when start > end; update_end(e) with e < start
\* returns false and leaves start and end as they were.
C6_RangeInvariant ==
    /\ \A r \in RangesHeld : ValidRange(r)
    /\ call.op = "try_from_bounds" =>
           /\ ret.ok <=> ~(call.a > call.b)
           /\ cur = (IF call.a > call.b THEN <<>>
                     ELSE <<Ipv4Range(call.a, call.b)>>)
    /\ call.op = "update_end" /\ call.a < call.rng[1].start =>
           ~ret.ok /\ cur = call.rng
    /\ call.op = "update_end" /\ call.a >= call.rng[1].start =>
           ret.ok /\ cur = <<Ipv4Range(call.rng[1].start, call.a)>>

\* C6 witness: update_end was refused on a range of more than one address
\* and the range is as it was.
C6_Witness ==
    /\ call.op = "update_end"
    /\ ~ret.ok
    /\ cur = call.rng
    /\ cur[1].start < cur[1].end
    /\ call.a < cur[1].start

\* the text a stands for one dotted-quad address
IsAddrText(a) == Len(a) = 1 /\ a[1].k = "addr"

\* the text a stands for one unsigned number in 0..Bits
IsPrefixText(a) == Len(a) = 1 /\ a[1].k = "num" /\ a[1].v \in 0..Bits

Contains(a, c) == \E i \in 1..Len(a) : a[i].k = c

\* the index of the first c in a text that contains one
First(a, c) ==
    CHOOSE i \in 1..Len(a) : a[i].k = c /\ \A j \in 1..(i - 1) : a[j].k # c

Before(a, c) == SubSeq(a, 1, First(a, c) - 1)

After(a, c) == SubSeq(a, First(a, c) + 1, Len(a))

\* case (1) of the parser: address "/" prefix
IsSubnetText(a) ==
    /\ Contains(a, "/")
    /\ IsAddrText(Before(a, "/"))
    /\ IsPrefixText(After(a, "/"))

\* case (2) of the parser: left "-" right, blanks around each side allowed
IsRangeText(a) ==
    /\ ~Contains(a, "/")
    /\ Contains(a, "-")
    /\ IsAddrText(trim(Before(a, "-")))
    /\ IsAddrText(trim(After(a, "-")))
    /\ trim(Before(a, "-"))[1].v <= trim(After(a, "-"))[1].v

\* C7: Parser outcome.  parse_range returns a range exactly for (1) a text
\* with '/', a valid address before the first '/' and an unsigned integer in
\* 0..Bits after it, giving the subnet's range, and (2) a text without '/'
\* and with '-', both trimmed sides of the first '-' valid addresses with
\* left <= right, giving [left, right]; in every other case it returns an
\* error and no range.
C7_ParserOutcome ==
    call.op = "parse_range" =>
        LET a == call.str
        IN /\ ret.ok <=> (IsSubnetText(a) \/ IsRangeText(a))
           /\ ~ret.ok => ret.rng = <<>> /\ cur = <<>>
           /\ IsSubnetText(a) =>
                  LET s == Ipv4Subnet(Before(a, "/")[1].v, After(a, "/")[1].v)
                  IN ret.rng = <<Ipv4Range(BlockStart(s), BlockEnd(s))>>
           /\ IsRangeText(a) =>
                  ret.rng = <<Ipv4Range(trim(Before(a, "-"))[1].v,
                                        trim(After(a, "-"))[1].v)>>

\* C7 witness: a range text with blanks around the '-' was parsed into its
\* range of more than one address.
C7_Witness ==
    /\ call.op = "parse_range"
    /\ IsRangeText(call.str)
    /\ Contains(call.str, " ")
    /\ ret.ok
    /\ ret.rng[1].start < ret.rng[1].end

\* bit i (0 the lowest) of x
Bit(x, i) == (x \div 2^i) % 2

\* C8: Subnet-to-Range mapping.  For every address a and p in 0..Bits,
\* make_mask(p) has exactly its top p bits set (0 for p = 0, all ones for
\* p = Bits); the range of Subnet(a, p) starts at a & mask(p) and ends at
\* start | ~mask(p), so start <= a <= end and it holds 2^(Bits - p)
\* addresses; Subnet(a, Bits) maps to the range (a, a); the subnet keeps the
\* unmasked a as its base.
C8_SubnetToRange ==
    call.op = "try_from_subnet" /\ call.b <= Bits =>
        LET a == call.a
            p == call.b
            m == make_mask(p)
            r == ret.rng[1]
        IN /\ ret.ok
           /\ \A i \in 0..(Bits - 1) : Bit(m, i) = (IF i >= Bits - p THEN 1 ELSE 0)
           /\ m \in Addr
           /\ p = 0 => m = 0
           /\ p = Bits => m = MaxAddr
           /\ \A i \in 0..(Bits - 1) :
                  /\ Bit(r.start, i) = Bit(a, i) * Bit(m, i)
                  /\ Bit(r.end, i) = (IF Bit(m, i) = 1 THEN Bit(r.start, i) ELSE 1)
           /\ r.start <= a
           /\ a <= r.end
           /\ r.end \in Addr
           /\ r.end - r.start + 1 = 2^(Bits - p)
           /\ p = Bits => Ok(r) = range_try_from_bounds(a, a)
           /\ ret.subnets = <<Ipv4Subnet(a, p)>>

\* C8 witness: the range of a subnet with prefix 0 and a nonzero base was
\* built: the whole address space.
C8_Witness ==
    /\ call.op = "try_from_subnet"
    /\ call.b = 0
    /\ call.a # 0
    /\ ret.rng = <<Ipv4Range(0, MaxAddr)>>

\* r is an aligned power-of-two block
IsAlignedBlock(r) ==
    \E k \in 0..Bits : r.end - r.start + 1 = 2^k /\ r.start % 2^k = 0

\* C9: Minimal covering subnet.  The subnet built from a valid range r
\* (base r.start, prefix get_prefix(r)) covers r, and no subnet with a
\* longer prefix holds both r.start and r.end; the prefix is 0 when the
\* bounds differ in the top bit and Bits when start = end; the subnet's
\* range equals r exactly when r is an aligned power-of-two block.
C9_MinimalCoveringSubnet ==
    call.op = "subnet_from" =>
        LET r == call.rng[1]
            s == ret.subnets[1]
        IN /\ s.addr = r.start
           /\ s.prefix \in 0..Bits
           /\ BlockStart(s) <= r.start
           /\ BlockEnd(s) >= r.end
           /\ \A q \in (s.prefix + 1)..Bits :
                  r.start \div BlockSize(q) # r.end \div BlockSize(q)
           /\ Bit(r.start, Bits - 1) # Bit(r.end, Bits - 1) => s.prefix = 0
           /\ r.start = r.end => s.prefix = Bits
           /\ ret.rng = <<Ipv4Range(BlockStart(s), BlockEnd(s))>>
           /\ ret.rng[1] = r <=> IsAlignedBlock(r)

\* C9 witness: the covering subnet of a range that is no aligned block was
\* built, and its range is larger than the range.
C9_Witness ==
    /\ call.op = "subnet_from"
    /\ ~IsAlignedBlock(call.rng[1])
    /\ ret.subnets[1].prefix \in 1..(Bits - 1)
    /\ ret.rng[1].start < call.rng[1].start
    /\ ret.rng[1].end > call.rng[1].end


\* the shift count behind an emitted subnet: its prefix is 32 - s
ShiftOf(subnet) == Bits - subnet.prefix

\* C11: Trailing-zero cap in the decomposition.  to_subnets returns without
\* a panic, and for every working address cur it reaches, the address of an
\* emitted subnet, cur = 0 included: count_suffix_zero_bits(cur) is at most
\* Bits (32), the shift count s of the emitted block is within 0..Bits, and
\* so is the emitted prefix.  The code falls short of it at cur = 0, where
\* the loop test i <= 32 lets the count reach 33.
C11_TrailingZeroCap ==
    DidToSubnets =>
        /\ ret.ok
        /\ \A i \in 1..Len(ret.subnets) :
               /\ count_suffix_zero_bits(ret.subnets[i].addr) <= Bits
               /\ ShiftOf(ret.subnets[i]) \in 0..Bits
               /\ ret.subnets[i].prefix \in 0..Bits

\* the end of the cursor range ranges[j] when merge_ranges, given list,
\* tests its element i (counted from 0): the loop's state after the
\* elements before i
CursorEnd(list, i, c) ==
    LET l == MergeLoop(SubSeq(list, 1, i), 0, 1, c)
    IN l.ranges[l.j + 1].end

\* C12: Merge arithmetic stays in range.  For every sorted list of valid
\* ranges and every iteration of merge_ranges's loop, the sum end + 1 is at
\* most 0xffffffff, so merge_ranges does not panic and its test
\* start > end + 1 on u32 agrees with the comparison of the numbers, also
\* when the cursor range ends at the last address and ranges follow it.
\* The code falls short of it: end + 1 overflows for such a cursor range.
C12_MergeArithmeticInRange ==
    call.op \in {"merge_ranges", "process_ranges"} =>
        /\ ret.ok
        /\ \A i \in 1..(Len(call.list) - 1) :
               LET curEnd == CursorEnd(call.list, i, checks)
                   nextStart == call.list[i + 1].start
               IN /\ curEnd + 1 <= MaxAddr
                  /\ (nextStart > (curEnd + 1) % 2^Bits)
                         <=> (nextStart > curEnd + 1)

====
